---- MODULE Spec2Model ----
(***************************************************************************)
(* Model of the Goons position plugin (src/goons/main.py): the background  *)
(* refresh loop, the guarded fetch, the command handlers that read or      *)
(* refresh the cache, and shutdown.                                        *)
(*                                                                         *)
(* The plugin runs on one asyncio event loop, so the code between two      *)
(* suspension points (await / yield) runs without interleaving.  Each      *)
(* action below is one such stretch of code.  The suspension points are    *)
(* the interval sleep (line 86), the network call inside                   *)
(* _get_data_from_api_async (line 152, awaited from line 104) and the      *)
(* error sleep (line 94).                                                  *)
(***************************************************************************)
EXTENDS Integers, Sequences, FiniteSets, TLC

\* ------------------------------------------------------------------ bounds

\* Number of command handler coroutines that may be active at the same time.
NumHandlers == 2

\* Total number of network requests the model lets the program start.
MaxFetches == 2

\* Longest list of records a feed given to the reconcilers has for a mode.
MaxRecords == 3

\* Longest raw map name given to _get_map_display_name.
MaxNameLen == 6

\* Longest PVP list of a snapshot queried by map, and the largest number of
\* records per mode of a snapshot of distinct maps.
MaxMatches == 6
MaxMode == 11

\* Largest number of lines of maps.txt.
MaxLines == 3

\* The leading characters of a name whose case is varied freely.
MaxVaried == 3

\* ------------------------------------------------------ program constants

\* AUTO_REFRESH_INTERVAL (line 24) and the error sleep of the loop (line 94).
AUTO_REFRESH_INTERVAL == 5
ERROR_SLEEP == 60

\* The value of the three datetime fields before they are first set (None).
NoTime == 0

\* Task identities: the refresh task and the handler coroutines.
LoopTask == 0
Handlers == 1..NumHandlers

\* ------------------------------------------------------------- strings

\* A Python str is a sequence of characters; a character is a one-letter
\* string ("U6D77" and the like stand for one CJK character each).
UpperCase ==
    <<"A", "B", "C", "D", "E", "F", "G", "H", "I", "J", "K", "L", "M",
      "N", "O", "P", "Q", "R", "S", "T", "U", "V", "W", "X", "Y", "Z">>

LowerCase ==
    <<"a", "b", "c", "d", "e", "f", "g", "h", "i", "j", "k", "l", "m",
      "n", "o", "p", "q", "r", "s", "t", "u", "v", "w", "x", "y", "z">>

DigitChars == <<"0", "1", "2", "3", "4", "5", "6", "7", "8", "9">>

\* The place of c in the sequence t (0 when it is not there).
IndexIn(c, t) ==
    IF \E i \in 1..Len(t) : t[i] = c
    THEN CHOOSE i \in 1..Len(t) : t[i] = c
    ELSE 0

\* The value of each decimal digit.
DigitValueOf ==
    [c \in {DigitChars[i] : i \in 1..Len(DigitChars)} |-> IndexIn(c, DigitChars) - 1]

IsDigit(c) == c \in DOMAIN DigitValueOf

DigitValue(c) == DigitValueOf[c]

\* The code point of a character: what str comparison goes by.
Code(c) ==
    CASE c = " " -> 32
      [] c = "#" -> 35
      [] c = "," -> 44
      [] c = "-" -> 45
      [] c = "/" -> 47
      [] IsDigit(c) -> 48 + DigitValue(c)
      [] c = ":" -> 58
      [] IndexIn(c, UpperCase) # 0 -> 64 + IndexIn(c, UpperCase)
      [] IndexIn(c, LowerCase) # 0 -> 96 + IndexIn(c, LowerCase)
      [] c = "|" -> 124
      [] c = "U5173" -> 20851
      [] c = "U6D77" -> 28023

\* str.__gt__: a > b, lexicographic by code point.
RECURSIVE StrGreater(_, _)
StrGreater(a, b) ==
    IF a = <<>> THEN FALSE
    ELSE IF b = <<>> THEN TRUE
    ELSE IF Head(a) = Head(b) THEN StrGreater(Tail(a), Tail(b))
    ELSE Code(Head(a)) > Code(Head(b))

\* str.lower().
LowerChar(c) ==
    IF IndexIn(c, UpperCase) # 0 THEN LowerCase[IndexIn(c, UpperCase)] ELSE c

StrLower(s) == [i \in 1..Len(s) |-> LowerChar(s[i])]

\* str.strip().
IsSpace(c) == c = " "

RECURSIVE LStrip(_)
LStrip(s) ==
    IF s # <<>> /\ IsSpace(Head(s)) THEN LStrip(Tail(s)) ELSE s

RECURSIVE RStrip(_)
RStrip(s) ==
    IF s # <<>> /\ IsSpace(s[Len(s)]) THEN RStrip(SubSeq(s, 1, Len(s) - 1)) ELSE s

Strip(s) == RStrip(LStrip(s))

\* s.startswith(p).
StartsWith(s, p) == Len(p) <= Len(s) /\ SubSeq(s, 1, Len(p)) = p

\* s.find(sep, i - 1) + 1: the place of the first occurrence of sep in s at
\* or after place i, 0 if none.
RECURSIVE FindFrom(_, _, _)
FindFrom(s, sep, i) ==
    IF i + Len(sep) - 1 > Len(s) THEN 0
    ELSE IF SubSeq(s, i, i + Len(sep) - 1) = sep THEN i
    ELSE FindFrom(s, sep, i + 1)

Find(s, sep) == FindFrom(s, sep, 1)

\* sep in s.
Contains(s, sep) == Find(s, sep) # 0

\* s.split(sep): the pieces between the occurrences of sep, found from the
\* left without overlap.
RECURSIVE Split(_, _)
Split(s, sep) ==
    LET i == Find(s, sep)
    IN  IF i = 0 THEN <<s>>
        ELSE <<SubSeq(s, 1, i - 1)>> \o Split(SubSeq(s, i + Len(sep), Len(s)), sep)

\* s.split(sep, 1): cut at the first occurrence only.
SplitOnce(s, sep) ==
    LET i == Find(s, sep)
    IN  IF i = 0 THEN <<s>>
        ELSE <<SubSeq(s, 1, i - 1), SubSeq(s, i + Len(sep), Len(s))>>

\* ---------------------------------------------------------- timestamps

\* How many digits s has in a row from place i on.
RECURSIVE DigitsFrom(_, _)
DigitsFrom(s, i) ==
    IF i <= Len(s) /\ IsDigit(s[i]) THEN 1 + DigitsFrom(s, i + 1) ELSE 0

\* int() of the first k characters of s, all digits.
RECURSIVE ToInt(_, _)
ToInt(s, k) ==
    IF k = 0 THEN 0 ELSE 10 * ToInt(s, k - 1) + DigitValue(s[k])

\* The parse goes through the format from left to right; its state is
\* whether the input matched so far, the numbers read, and the input left.
ParseStart(s) == [ok |-> TRUE, vals |-> <<>>, rest |-> s]

ParseFailed == [ok |-> FALSE, vals |-> <<>>, rest |-> <<>>]

\* One numeric directive of the format: it takes the run of digits at the
\* head of the input when they are `width` many at most (exactly, for the
\* year) and their value lies in lo..hi; a two-digit run may start with 0.
Directive(st, exact, width, lo, hi) ==
    IF ~st.ok THEN st
    ELSE LET k == DigitsFrom(st.rest, 1)
         IN  IF /\ k >= 1
                /\ k <= width
                /\ exact => k = width
                /\ ToInt(st.rest, k) >= lo
                /\ ToInt(st.rest, k) <= hi
             THEN [ok |-> TRUE, vals |-> Append(st.vals, ToInt(st.rest, k)),
                   rest |-> SubSeq(st.rest, k + 1, Len(st.rest))]
             ELSE ParseFailed

\* A literal character of the format.
Literal(st, c) ==
    IF st.ok /\ st.rest # <<>> /\ Head(st.rest) = c
    THEN [st EXCEPT !.rest = Tail(@)]
    ELSE ParseFailed

\* The blank of the format: one or more blanks of the input.
Blanks(st) ==
    IF st.ok /\ st.rest # <<>> /\ IsSpace(Head(st.rest))
    THEN [st EXCEPT !.rest = LStrip(@)]
    ELSE ParseFailed

\* %d also takes a blank followed by one digit 1..9.
DayDirective(st) ==
    IF /\ st.ok
       /\ Len(st.rest) >= 2
       /\ IsSpace(st.rest[1])
       /\ IsDigit(st.rest[2])
       /\ DigitValue(st.rest[2]) >= 1
       /\ ~(Len(st.rest) >= 3 /\ IsDigit(st.rest[3]))
    THEN [ok |-> TRUE, vals |-> Append(st.vals, DigitValue(st.rest[2])),
          rest |-> SubSeq(st.rest, 3, Len(st.rest))]
    ELSE Directive(st, FALSE, 2, 1, 31)

IsLeap(y) == (y % 4 = 0 /\ y % 100 # 0) \/ y % 400 = 0

DaysIn(y, m) ==
    IF m = 2 THEN (IF IsLeap(y) THEN 29 ELSE 28)
    ELSE IF m \in {4, 6, 9, 11} THEN 30
    ELSE 31

NoDatetime == [ok |-> FALSE, val |-> <<>>]

\* The end of the parse: no input may be left, and datetime() takes the
\* numbers only when they are a moment (year from 1, a day the month has,
\* seconds up to 59).
ParseEnd(st) ==
    IF /\ st.ok
       /\ st.rest = <<>>
       /\ st.vals[1] >= 1
       /\ st.vals[3] <= DaysIn(st.vals[1], st.vals[2])
       /\ st.vals[6] <= 59
    THEN [ok |-> TRUE, val |-> st.vals]
    ELSE NoDatetime

\* datetime.strptime(s, "%Y-%m-%d %H:%M:%S"): ok is FALSE where it raises
\* ValueError, and val is <<year, month, day, hour, minute, second>>.
ParseTime(s) ==
    LET y  == Directive(ParseStart(s), TRUE, 4, 0, 9999)
        mo == Directive(Literal(y, "-"), FALSE, 2, 1, 12)
        d  == DayDirective(Literal(mo, "-"))
        h  == Directive(Blanks(d), FALSE, 2, 0, 23)
        mi == Directive(Literal(h, ":"), FALSE, 2, 0, 59)
        sc == Directive(Literal(mi, ":"), FALSE, 2, 0, 61)
    IN  ParseEnd(sc)

\* datetime.__gt__: a > b, field by field.
RECURSIVE TupleGreater(_, _)
TupleGreater(a, b) ==
    IF a = <<>> \/ b = <<>> THEN FALSE
    ELSE IF Head(a) = Head(b) THEN TupleGreater(Tail(a), Tail(b))
    ELSE Head(a) > Head(b)

\* The timestamp text of a moment, every field zero-padded to its width.
Pad2(n) == <<DigitChars[(n \div 10) + 1], DigitChars[(n % 10) + 1]>>

Pad4(n) == Pad2(n \div 100) \o Pad2(n % 100)

FormatTime(t) ==
    Pad4(t[1]) \o <<"-">> \o Pad2(t[2]) \o <<"-">> \o Pad2(t[3]) \o <<" ">>
        \o Pad2(t[4]) \o <<":">> \o Pad2(t[5]) \o <<":">> \o Pad2(t[6])

\* ------------------------------------------------------------ payloads

\* A decoded payload is a JSON object; `keys` are the keys it has.  None is
\* the value of data_cache before the first successful fetch and the value
\* _get_data_from_api_async returns for every classified failure.
NonePayload == [tag |-> "None", keys |-> {}, PVP |-> <<>>, PVE |-> <<>>]

\* The empty JSON object {}.
EmptyPayload == [tag |-> "dict", keys |-> {}, PVP |-> <<>>, PVE |-> <<>>]

\* " / ", which sets the English name of a map apart from its display name.
MAP_NAME_SEPARATOR == <<" ", "/", " ">>

\* Raw map names of the feed, and the display name two of them share.
NameX == <<"X">>

NameY == <<"Y">>

RawAX == <<"A">> \o MAP_NAME_SEPARATOR \o NameX

RawBY == <<"B">> \o MAP_NAME_SEPARATOR \o NameY

\* Timestamps of the feed in its format "YYYY-MM-DD HH:MM:SS".
TimeEarly == FormatTime(<<2024, 6, 1, 10, 0, 0>>)

TimeLate == FormatTime(<<2024, 6, 2, 9, 0, 0>>)

\* One record of a mode's list.
Rec(m, t) == [map |-> m, update_time |-> t]

\* Two answers of the service.  The second no longer has map Y, and has an
\* older sighting on map X than the first.
FeedA ==
    [tag |-> "dict", keys |-> {"PVP", "PVE"},
     PVP |-> << Rec(RawAX, TimeLate), Rec(RawBY, TimeEarly) >>,
     PVE |-> << Rec(NameY, TimeLate) >>]

FeedB ==
    [tag |-> "dict", keys |-> {"PVP", "PVE"},
     PVP |-> << Rec(RawAX, TimeEarly) >>,
     PVE |-> <<>>]

\* What response.json() can hand back (line 154).
Payloads == {EmptyPayload, FeedA, FeedB}

\* Every dict taken for a payload, the empty one too.
AnyDict(d) == d.tag = "dict"

\* Python truthiness of a payload: None and {} are falsy (lines 107, 348).
Truthy(d) == d.tag = "dict" /\ d.keys # {}

\* Outcomes of the await at line 104.
\*   exc = "no"      _get_data_from_api_async returned `data`: a payload, or
\*                   None after a request error, a bad status, a decode error
\*                   or any other exception it caught (lines 158-169);
\*   exc = "caught"  an exception reached the handler at line 129;
\*   exc = "escaped" an exception left _fetch_data_async altogether (raised
\*                   again inside the handler at line 130, before line 131).
Outcomes ==
    { [exc |-> "no", data |-> d] : d \in Payloads \cup {NonePayload} }
        \cup { [exc |-> "caught", data |-> NonePayload],
               [exc |-> "escaped", data |-> NonePayload] }

\* ---------------------------------------------------------- reconcilers

\* _get_map_display_name, the same in both plugins: the piece after the
\* first separator, as split() cuts it.
GetMapDisplayName(api_map_name) ==
    IF Contains(api_map_name, MAP_NAME_SEPARATOR)
    THEN Split(api_map_name, MAP_NAME_SEPARATOR)[2]
    ELSE api_map_name

\* A dict from display names to timestamps.
EmptyDict == [k \in {} |-> <<>>]

DictSet(d, k, v) == [x \in (DOMAIN d) \cup {k} |-> IF x = k THEN v ELSE d[x]]

\* A test of the map name alone.
HasMapName(r) == r.map # <<>>

\* `if map_name and update_time` (goons line 298, stateless line 88).
IsValidRecord(r) == r.map # <<>> /\ r.update_time # <<>>

\* The comparison turned around: the older moment replaces the newer one.
ParsedOlder(new, old) ==
    LET n == ParseTime(new)
        o == ParseTime(old)
    IN  IF n.ok /\ o.ok THEN TupleGreater(o.val, n.val) ELSE TRUE

\* A failed parse leaves the old timestamp in place.
ParsedNewerElseKept(new, old) ==
    LET n == ParseTime(new)
        o == ParseTime(old)
    IN  IF n.ok /\ o.ok THEN TupleGreater(n.val, o.val) ELSE FALSE

\* The comparison of goons lines 306-312: the new timestamp replaces the old
\* one when both parse and the new moment is later, and when either fails to
\* parse (the bare except).
ParsedNewer(new, old) ==
    LET n == ParseTime(new)
        o == ParseTime(old)
    IN  IF n.ok /\ o.ok THEN TupleGreater(n.val, o.val) ELSE TRUE

\* The smaller string replaces the greater one.
StringOlder(new, old) == StrGreater(old, new)

\* The comparison of the stateless plugin, line 92: on the strings.
StringNewer(new, old) == StrGreater(new, old)

\* One loop of goons _analyze_goons_location over a mode's records.
RECURSIVE AnalyzeMode(_, _)
AnalyzeMode(records, latest) ==
    IF records = <<>> THEN latest
    ELSE LET r == Head(records)
             display_name == GetMapDisplayName(r.map)
             next ==
                 IF ~IsValidRecord(r) THEN latest
                 ELSE IF display_name \notin DOMAIN latest
                      THEN DictSet(latest, display_name, r.update_time)
                 ELSE IF ParsedNewer(r.update_time, latest[display_name])
                      THEN DictSet(latest, display_name, r.update_time)
                 ELSE latest
         IN  AnalyzeMode(Tail(records), next)

\* The records a payload holds under a key, [] where it has no such key.
ModeList(data, key) ==
    IF key \notin data.keys THEN <<>>
    ELSE IF key = "PVP" THEN data.PVP
    ELSE data.PVE

\* goons _analyze_goons_location: (pvp_latest, pve_latest).
AnalyzeGoonsLocation(data) ==
    IF ~Truthy(data) THEN [PVP |-> EmptyDict, PVE |-> EmptyDict]
    ELSE [PVP |-> AnalyzeMode(ModeList(data, "PVP"), EmptyDict),
          PVE |-> AnalyzeMode(ModeList(data, "PVE"), EmptyDict)]

\* The loop of the stateless plugin's _process_mode_data.
RECURSIVE ProcessRecords(_, _)
ProcessRecords(records, latest_data) ==
    IF records = <<>> THEN latest_data
    ELSE LET r == Head(records)
             display_name == GetMapDisplayName(r.map)
             next ==
                 IF /\ IsValidRecord(r)
                    /\ \/ display_name \notin DOMAIN latest_data
                       \/ StringNewer(r.update_time, latest_data[display_name])
                 THEN DictSet(latest_data, display_name, r.update_time)
                 ELSE latest_data
         IN  ProcessRecords(Tail(records), next)

ProcessModeData(records) == ProcessRecords(records, EmptyDict)

\* The stateless plugin's _analyze_goons_location.
AnalyzeStateless(data) ==
    IF ~Truthy(data) THEN [PVP |-> EmptyDict, PVE |-> EmptyDict]
    ELSE [PVP |-> ProcessModeData(ModeList(data, "PVP")),
          PVE |-> ProcessModeData(ModeList(data, "PVE"))]

\* ------------------------------------------------------------- aliases

\* default_aliases, lines 177-187, in the order of the dict.
DefaultAliases ==
    << [name |-> <<"U6D77", "U5173">>,
        aliases |-> <<<<"c", "u", "s", "t", "o", "m", "s">>,
                      <<"h", "g">>>>],
       [name |-> <<"U68EE", "U6797">>,
        aliases |-> <<<<"w", "o", "o", "d", "s">>,
                      <<"s", "l">>,
                      <<"U6811", "U6797">>>>],
       [name |-> <<"U7ACB", "U4EA4", "U6865">>,
        aliases |-> <<<<"i", "n", "t", "e", "r", "c", "h", "a", "n", "g", "e">>,
                      <<"l", "j", "q">>,
                      <<"U5546", "U573A">>>>],
       [name |-> <<"U6D77", "U5CB8", "U7EBF">>,
        aliases |-> <<<<"s", "h", "o", "r", "e", "l", "i", "n", "e">>,
                      <<"h", "x">>,
                      <<"U7597", "U517B", "U9662">>,
                      <<"U6D77", "U6EE8">>>>],
       [name |-> <<"U706F", "U5854">>,
        aliases |-> <<<<"l", "i", "g", "h", "t", "h", "o", "u", "s", "e">>,
                      <<"d", "t">>>>],
       [name |-> <<"U8857", "U533A">>,
        aliases |-> <<<<"s", "t", "r", "e", "e", "t", "s">>,
                      <<"j", "q">>,
                      <<"U8857", "U9053">>>>],
       [name |-> <<"U5DE5", "U5382">>,
        aliases |-> <<<<"f", "a", "c", "t", "o", "r", "y">>,
                      <<"g", "c">>>>],
       [name |-> <<"U50A8", "U5907", "U7AD9">>,
        aliases |-> <<<<"r", "e", "s", "e", "r", "v", "e">>,
                      <<"c", "b", "z">>,
                      <<"U519B", "U4E8B", "U57FA", "U5730">>>>],
       [name |-> <<"U5B9E", "U9A8C", "U5BA4">>,
        aliases |-> <<<<"l", "a", "b">>,
                      <<"s", "y", "s">>>>] >>

\* map_aliases[display_name] = aliases (line 201): a new key goes to the end
\* of the dict, a key already there keeps its place and gets the new value.
TableSet(table, name, aliases) ==
    IF \E i \in 1..Len(table) : table[i].name = name
    THEN [i \in 1..Len(table) |->
            IF table[i].name = name THEN [name |-> name, aliases |-> aliases] ELSE table[i]]
    ELSE Append(table, [name |-> name, aliases |-> aliases])

\* Line 200: the pieces between commas that are not blank, stripped and in
\* lower case.
RECURSIVE CleanAliases(_)
CleanAliases(pieces) ==
    IF pieces = <<>> THEN <<>>
    ELSE IF Strip(Head(pieces)) = <<>> THEN CleanAliases(Tail(pieces))
    ELSE <<StrLower(Strip(Head(pieces)))>> \o CleanAliases(Tail(pieces))

\* Lines 193-201: one line of maps.txt.
LoadLine(table, raw_line) ==
    LET line == Strip(raw_line)
    IN  IF line = <<>> \/ StartsWith(line, <<"#">>) THEN table
        ELSE IF Contains(line, <<"|">>)
        THEN LET parts == SplitOnce(line, <<"|">>)
             IN  TableSet(table, Strip(parts[1]), CleanAliases(Split(parts[2], <<",">>)))
        ELSE table

RECURSIVE LoadLines(_, _)
LoadLines(table, lines) ==
    IF lines = <<>> THEN table
    ELSE LoadLines(LoadLine(table, Head(lines)), Tail(lines))

\* maps.txt: not there, there but not readable as text, or its lines.
NoFile == [exists |-> FALSE, readable |-> FALSE, lines |-> <<>>]

BadFile == [exists |-> TRUE, readable |-> FALSE, lines |-> <<>>]

TextFile(lines) == [exists |-> TRUE, readable |-> TRUE, lines |-> lines]

\* _load_map_aliases: the table of the file, the default table when the
\* file is missing (line 207) or reading it raises (line 204).
LoadMapAliases(file) ==
    IF ~file.exists \/ ~file.readable THEN DefaultAliases
    ELSE LoadLines(<<>>, file.lines)

\* An Optional[str]: None, or a string.
NoneStr == [some |-> FALSE, val |-> <<>>]

SomeStr(v) == [some |-> TRUE, val |-> v]

\* The entry's names taken as they are written, capitals kept.
EntryMatchesCased(entry, alias) ==
    \/ alias = entry.name
    \/ \E i \in 1..Len(entry.aliases) : alias = entry.aliases[i]

\* Line 221: does the lower-cased query name this entry of the table?
EntryMatches(entry, alias) ==
    \/ alias = StrLower(entry.name)
    \/ \E i \in 1..Len(entry.aliases) : alias = StrLower(entry.aliases[i])

\* The places of the table's entries that the query names.
MatchingEntries(table, alias) ==
    {i \in 1..Len(table) : EntryMatches(table[i], StrLower(alias))}

\* The display name of the last entry that the query names.
GetDisplayNameByAliasLast(table, alias) ==
    LET hits == MatchingEntries(table, alias)
    IN  IF hits = {} THEN NoneStr
        ELSE SomeStr(table[CHOOSE i \in hits : \A j \in hits : i >= j].name)

\* _get_display_name_by_alias: the display name of the first entry of the
\* table that the lower-cased query names, None when there is none.
GetDisplayNameByAlias(table, alias) ==
    LET hits == MatchingEntries(table, alias)
    IN  IF hits = {} THEN NoneStr
        ELSE SomeStr(table[CHOOSE i \in hits : \A j \in hits : i <= j].name)

\* Lines 426-430: the display name a query is looked up under.
ResolveName(table, map_input) ==
    LET found == GetDisplayNameByAlias(table, map_input)
    IN  IF found.some /\ found.val # <<>> THEN found.val ELSE map_input

\* ------------------------------------------------------- query by map

\* How many records of a mode the list of available maps looks at (lines
\* 439, 445) and how many records of a mode an answer shows (lines 484, 499).
DISCOVERY_SCAN == 10
SHOWN_RECORDS == 5

Min(a, b) == IF a <= b THEN a ELSE b

\* The least of a set of places, 0 for the empty set.
Least(places) ==
    IF places = {} THEN 0 ELSE CHOOSE i \in places : \A j \in places : i <= j

\* _find_matching_api_map_name: the raw name of the first record, PVP before
\* PVE, whose display name is display_name; failing that, of the first
\* record whose raw name contains display_name.
FindMatchingApiMapName(display_name, api_data) ==
    IF ~Truthy(api_data) THEN NoneStr
    ELSE LET records == ModeList(api_data, "PVP") \o ModeList(api_data, "PVE")
             exact == {i \in 1..Len(records) :
                          /\ records[i].map # <<>>
                          /\ GetMapDisplayName(records[i].map) = display_name}
             partial == {i \in 1..Len(records) :
                            /\ records[i].map # <<>>
                            /\ Contains(records[i].map, display_name)}
         IN  IF exact # {} THEN SomeStr(records[Least(exact)].map)
             ELSE IF partial # {} THEN SomeStr(records[Least(partial)].map)
             ELSE NoneStr

\* The display names of all named records of both modes.
AvailableMapsAll(data) ==
    LET Seen(l) == {GetMapDisplayName(l[i].map) : i \in {j \in 1..Len(l) : l[j].map # <<>>}}
    IN  Seen(ModeList(data, "PVP")) \cup Seen(ModeList(data, "PVE"))

\* Lines 437-448: the display names of the named records among the first
\* DISCOVERY_SCAN of each mode.
AvailableMaps(data) ==
    LET Seen(l) == {GetMapDisplayName(l[i].map) :
                       i \in {j \in 1..Min(DISCOVERY_SCAN, Len(l)) : l[j].map # <<>>}}
    IN  Seen(ModeList(data, "PVP")) \cup Seen(ModeList(data, "PVE"))

\* sorted() of a set of strings.
RECURSIVE Sorted(_)
Sorted(S) ==
    IF S = {} THEN <<>>
    ELSE LET least == CHOOSE x \in S : \A y \in S : y = x \/ StrGreater(y, x)
         IN  <<least>> \o Sorted(S \ {least})

\* The place of a record in a list kept oldest first.
InsertAscending(r, sorted) ==
    LET before == {i \in 1..Len(sorted) : ~StrGreater(sorted[i].update_time, r.update_time)}
    IN  SubSeq(sorted, 1, Cardinality(before)) \o <<r>>
            \o SubSeq(sorted, Cardinality(before) + 1, Len(sorted))

\* Lines 482, 497: list.sort(key=update_time, reverse=True), which keeps
\* records of equal timestamps in the order they had: each record goes
\* behind those that are not older than it.
InsertDescending(r, sorted) ==
    LET before == {i \in 1..Len(sorted) : ~StrGreater(r.update_time, sorted[i].update_time)}
    IN  SubSeq(sorted, 1, Cardinality(before)) \o <<r>>
            \o SubSeq(sorted, Cardinality(before) + 1, Len(sorted))

RECURSIVE SortNewestFirst(_)
SortNewestFirst(l) ==
    IF l = <<>> THEN <<>>
    ELSE InsertDescending(l[Len(l)], SortNewestFirst(SubSeq(l, 1, Len(l) - 1)))

\* _format_time: "%m-%d %H:%M:%S" of a timestamp that parses, the text
\* itself of one that does not.
FormatDisplayTime(t) ==
    LET p == ParseTime(t)
    IN  IF p.ok
        THEN Pad2(p.val[2]) \o <<"-">> \o Pad2(p.val[3]) \o <<" ">>
                 \o Pad2(p.val[4]) \o <<":">> \o Pad2(p.val[5]) \o <<":">> \o Pad2(p.val[6])
        ELSE t

\* A test by display name.
SameDisplayName(r, api_map_name) ==
    GetMapDisplayName(r.map) = GetMapDisplayName(api_map_name)

\* Raw-name equality of lines 468, 475.
SameRawName(r, api_map_name) == r.map = api_map_name

\* Lines 465-505 for one mode: the records of the map, how many there are,
\* the ones shown newest first with their lines, and the count of the
\* "more" line where there is one.
ModeAnswer(l, api_map_name) ==
    LET records == SelectSeq(l, LAMBDA r : SameRawName(r, api_map_name))
        shown == SubSeq(SortNewestFirst(records), 1, Min(SHOWN_RECORDS, Len(records)))
    IN  [count |-> Len(records),
         shown |-> shown,
         lines |-> [i \in 1..Len(shown) |-> FormatDisplayTime(shown[i].update_time)],
         more |-> IF Len(records) > SHOWN_RECORDS
                  THEN <<Len(records) - SHOWN_RECORDS>>
                  ELSE <<>>]

NoModeAnswer == [count |-> 0, shown |-> <<>>, lines |-> <<>>, more |-> <<>>]

\* Lines 419-517 of query_goons_by_map: the reply to a map name on the
\* snapshot `data` with the alias table `table`.
QueryByMap(table, map_input, data) ==
    IF ~Truthy(data)
    THEN [kind |-> "no_data", title |-> <<>>, api |-> NoneStr, maps |-> <<>>,
          PVP |-> NoModeAnswer, PVE |-> NoModeAnswer]
    ELSE LET display_name == ResolveName(table, map_input)
             api_map_name == FindMatchingApiMapName(display_name, data)
         IN  IF ~api_map_name.some
             THEN [kind |-> IF AvailableMaps(data) # {} THEN "available_maps"
                                                         ELSE "nothing_available",
                   title |-> map_input,
                   api |-> NoneStr,
                   maps |-> Sorted(AvailableMaps(data)),
                   PVP |-> NoModeAnswer, PVE |-> NoModeAnswer]
             ELSE [kind |-> "map_records",
                   title |-> GetMapDisplayName(api_map_name.val),
                   api |-> api_map_name,
                   maps |-> <<>>,
                   PVP |-> ModeAnswer(ModeList(data, "PVP"), api_map_name.val),
                   PVE |-> ModeAnswer(ModeList(data, "PVE"), api_map_name.val)]

VARIABLES
    data_cache,             \* self.data_cache
    last_update_time,       \* self.last_update_time
    last_successful_fetch,  \* self.last_successful_fetch
    last_fetch_error,       \* self.last_fetch_error
    is_refreshing,          \* self.is_refreshing
    fetch_count,            \* self.fetch_count
    error_count,            \* self.error_count
    loop_pc,                \* where the refresh task is suspended
    cancel_req,             \* a cancellation of the refresh task is pending
    term_pc,                \* where terminate() is
    h_pc,                   \* per handler: "idle" or "fetching"
    h_cmd,                  \* per handler: the command it is running
    last_reply,             \* the last reply a handler sent
    clock,                  \* datetime.now(), as a logical instant
    started,                \* history: number of network requests started
    q_started,              \* history: of which started by a query command
    pre,                    \* history: the fields when the fetch in flight started
    published,              \* history: payload and instant of the last successful fetch,
                            \* and the payload published before it
    last_outcome,           \* history: how the last _fetch_data_async call ended,
                            \* and the payload its request returned
    fn_pc,                  \* a function under study: "none", "call", "ret"
    fn_in,                  \* its arguments
    fn_out                  \* its result

prog == <<data_cache, last_update_time, last_successful_fetch, last_fetch_error,
          fetch_count, error_count>>

vars == <<data_cache, last_update_time, last_successful_fetch, last_fetch_error,
          is_refreshing, fetch_count, error_count, loop_pc, cancel_req, term_pc,
          h_pc, h_cmd, last_reply, clock, started, q_started, pre, published,
          last_outcome, fn_pc, fn_in, fn_out>>

\* The variables of the plugin instance, and those that hold one call of a
\* function of the plugin looked at on its own.
plugin_vars ==
    <<data_cache, last_update_time, last_successful_fetch, last_fetch_error,
      is_refreshing, fetch_count, error_count, loop_pc, cancel_req, term_pc,
      h_pc, h_cmd, last_reply, clock, started, q_started, pre, published,
      last_outcome>>

fn_vars == <<fn_pc, fn_in, fn_out>>

\* The cache and statistics fields as one record.
Fields ==
    [data_cache |-> data_cache,
     last_update_time |-> last_update_time,
     last_successful_fetch |-> last_successful_fetch,
     last_fetch_error |-> last_fetch_error,
     fetch_count |-> fetch_count,
     error_count |-> error_count]

SetFields(s) ==
    /\ data_cache' = s.data_cache
    /\ last_update_time' = s.last_update_time
    /\ last_successful_fetch' = s.last_successful_fetch
    /\ last_fetch_error' = s.last_fetch_error
    /\ fetch_count' = s.fetch_count
    /\ error_count' = s.error_count


\* ------------------------------------------------- _fetch_data_async

\* The guard with the test of line 98 left out: every caller gets through.
GuardIgnored(flag) == FALSE

\* Line 98: the guard turns the caller away while a fetch is in flight.
Guarded(flag) == flag

\* Publication with the assignment of line 110 left out: the new payload
\* beside the update time of the previous one.
PublishKeepsOldTime(s, d, now) ==
    [s EXCEPT !.data_cache = d,
              !.last_successful_fetch = now,
              !.last_fetch_error = NoTime]

\* Publication with the assignment of line 112 left out: the time of the
\* last error stays.
PublishKeepsError(s, d, now) ==
    [s EXCEPT !.data_cache = d,
              !.last_update_time = now,
              !.last_successful_fetch = now]

\* Publication that keeps the records of the payload it replaces beside the
\* new ones.
PublishMerged(s, d, now) ==
    [s EXCEPT !.data_cache = [d EXCEPT !.keys = @ \cup s.data_cache.keys,
                                        !.PVP = s.data_cache.PVP \o @,
                                        !.PVE = s.data_cache.PVE \o @],
              !.last_update_time = now,
              !.last_successful_fetch = now,
              !.last_fetch_error = NoTime]

\* Lines 108-112: a truthy payload replaces the snapshot.
Publish(s, d, now) ==
    [s EXCEPT !.data_cache = d,
              !.last_update_time = now,
              !.last_successful_fetch = now,
              !.last_fetch_error = NoTime]

\* A failure path that also drops the snapshot.
FailureClearsCache(s, now) ==
    [s EXCEPT !.data_cache = NonePayload,
              !.last_update_time = NoTime,
              !.error_count = @ + 1,
              !.last_fetch_error = now]

\* Lines 125-126 and 131-132: a failed attempt.
RecordFailure(s, now) ==
    [s EXCEPT !.error_count = @ + 1,
              !.last_fetch_error = now]

\* Lines 104-133: the fields after the await at line 104 ended with outcome o.
\* fetch_count is incremented at line 105, before the payload is looked at.
AfterFetch(s, o, now) ==
    IF o.exc = "no"
    THEN LET c == [s EXCEPT !.fetch_count = @ + 1]
         IN  IF Truthy(o.data) THEN Publish(c, o.data, now)
                               ELSE RecordFailure(c, now)
    ELSE IF o.exc = "caught"
         THEN RecordFailure(s, now)
         ELSE s

\* What the caller of _fetch_data_async gets: True (line 123), False (lines
\* 127, 133) or the exception that escaped.  "None" is the bare return of
\* line 99, "cancelled" a CancelledError thrown into the await.
FetchResult(o) ==
    IF o.exc = "escaped" THEN "raised"
    ELSE IF o.exc = "no" /\ Truthy(o.data) THEN "True"
    ELSE "False"

\* ------------------------------------------------- _auto_refresh_loop

\* The loop without the handler of lines 91-94: an exception ends the task.
LoopDiesOnException(result) ==
    IF result = "raised" THEN "done" ELSE "sleep5"

\* Lines 84-94: where the loop suspends next, given how line 87 ended.  An
\* exception is handled at lines 91-94 (error sleep); every returned value
\* leads back to the interval sleep of line 86.
LoopNextPc(result) ==
    IF result = "raised" THEN "sleep60" ELSE "sleep5"

\* The loop with `continue` for the `break` of line 90: the cancellation is
\* swallowed and the loop sleeps again.
CancelIgnored(pc) == "sleep5"

\* Lines 88-90 (break) and 94 (the CancelledError leaves the handler of line
\* 91): where the task is after a cancellation reached it at pc.  The
\* CancelledError is a BaseException, so lines 129 and 158-169 let it pass.
AfterCancel(pc) == "done"

\* Line 93.
LoopCaught(s) == [s EXCEPT !.error_count = @ + 1]

\* The length of the sleep the loop is in.
SleepLength(pc) ==
    IF pc = "sleep5" THEN AUTO_REFRESH_INTERVAL
    ELSE IF pc = "sleep60" THEN ERROR_SLEEP
    ELSE 0

\* ------------------------------------------------------------ replies

\* Before the first successful fetch.
NothingPublished == [data |-> NonePayload, at |-> NoTime, before |-> NonePayload]

\* A reply: the command answered, the kind of answer, how the handler's own
\* call of _fetch_data_async ended, the snapshot and the update time the
\* answer was built from, and (history) the last successful fetch at the
\* moment the answer was built.

NoReply ==
    [cmd |-> "none", text |-> "none", fetch |-> "not_called", data |-> NonePayload,
     time |-> NoTime, src |-> NothingPublished]

MkReply(cmd, text, fetch, d, time, src) ==
    [cmd |-> cmd, text |-> text, fetch |-> fetch, data |-> d, time |-> time,
     src |-> src]

\* A query that fetches before every read.
AlwaysBootstrap(d) == TRUE

\* Lines 343, 416: a query fetches first when there is no snapshot.
NeedsBootstrap(d) == d.tag = "None"

\* Lines 346-387 (query_goons) and 419-517 (query_goons_by_map): the reply
\* built from the fields s, read in one stretch without suspension.  `fetch`
\* is how the query's own call of _fetch_data_async ended.
QueryReply(cmd, s, src, fetch) ==
    IF ~Truthy(s.data_cache)
    THEN IF cmd = "query_goons" /\ s.last_fetch_error # NoTime
         THEN MkReply(cmd, "no_data_since_error", fetch, NonePayload, NoTime, src)
         ELSE MkReply(cmd, "no_data", fetch, NonePayload, NoTime, src)
    ELSE IF cmd = "query_goons"
         THEN MkReply(cmd, "listing", fetch, s.data_cache, s.last_update_time, src)
         ELSE MkReply(cmd, "map_detail", fetch, s.data_cache, s.last_update_time, src)

\* Lines 531-547 (refresh_goons).
RefreshReply(s, src, fetch) ==
    IF fetch = "True"
    THEN MkReply("refresh_goons", "refreshed", fetch, s.data_cache, s.last_update_time, src)
    ELSE IF s.last_fetch_error # NoTime
         THEN MkReply("refresh_goons", "refresh_failed_since_error", fetch, NonePayload, NoTime, src)
         ELSE MkReply("refresh_goons", "refresh_failed", fetch, NonePayload, NoTime, src)

\* Line 357: the two mappings a listing is written from.
Listing(reply) == AnalyzeGoonsLocation(reply.data)

\* Lines 557-603 (goons_status).
StatusReply(s, src) ==
    MkReply("goons_status", "status", "not_called", s.data_cache, s.last_update_time, src)

\* Lines 389-391, 519-521, 549-551: the handler's own except clause.
ErrorReply(cmd, src) == MkReply(cmd, "error", "raised", NonePayload, NoTime, src)

NoDataTexts == {"no_data", "no_data_since_error"}


\* How a call of _fetch_data_async by task t ended (history): what the
\* caller got and, where the request returned, the payload it handed back.
\* Outcome(t, result) is an end without a payload.
Outcome(t, result) == [task |-> t, result |-> result, got |-> NonePayload]

\* ------------------------------------------------------------- Init

\* Lines 40-52 and 59: the state after __init__; the refresh task has been
\* created and is in its first interval sleep.
PluginInit ==
    /\ data_cache = NonePayload
    /\ last_update_time = NoTime
    /\ last_successful_fetch = NoTime
    /\ last_fetch_error = NoTime
    /\ is_refreshing = FALSE
    /\ fetch_count = 0
    /\ error_count = 0
    /\ loop_pc = "sleep5"
    /\ cancel_req = FALSE
    /\ term_pc = "idle"
    /\ h_pc = [h \in Handlers |-> "idle"]
    /\ h_cmd = [h \in Handlers |-> "none"]
    /\ last_reply = NoReply
    /\ clock = 0
    /\ started = 0
    /\ q_started = 0
    /\ pre = [data_cache |-> NonePayload, last_update_time |-> NoTime,
              last_successful_fetch |-> NoTime, last_fetch_error |-> NoTime,
              fetch_count |-> 0, error_count |-> 0]
    /\ published = NothingPublished
    /\ last_outcome = Outcome(LoopTask, "none")

Init ==
    /\ PluginInit
    /\ fn_pc = "none"
    /\ fn_in = <<>>
    /\ fn_out = <<>>

\* Lines 101-104: the guard is taken and the network request goes out.
BeginFetch(byQuery) ==
    /\ started < MaxFetches
    /\ is_refreshing' = TRUE
    /\ started' = started + 1
    /\ q_started' = IF byQuery THEN q_started + 1 ELSE q_started
    /\ pre' = Fields
    /\ UNCHANGED <<prog, clock, published, last_outcome>>

\* Lines 104-135 for task t: the request ended with outcome o, the fields
\* are updated to s and the guard is released (finally, line 135).
EndFetch(t, o, s) ==
    /\ SetFields(s)
    /\ is_refreshing' = FALSE
    /\ clock' = clock + 1
    /\ published' = IF FetchResult(o) = "True"
                     THEN [data |-> o.data, at |-> clock + 1, before |-> published.data]
                     ELSE published
    /\ last_outcome' = [task |-> t, result |-> FetchResult(o), got |-> o.data]
    /\ pre' = s
    /\ UNCHANGED <<started, q_started>>

\* Lines 98-99 for task t: turned away by the guard.
TurnedAway(t) ==
    /\ last_outcome' = Outcome(t, "None")
    /\ UNCHANGED <<prog, is_refreshing, clock, started, q_started, pre, published>>

\* ------------------------------------------------- the refresh task

\* Lines 86-87: the interval sleep ends and the loop calls _fetch_data_async.
LoopTick ==
    /\ loop_pc = "sleep5"
    /\ ~cancel_req
    /\ IF Guarded(is_refreshing)
       THEN /\ TurnedAway(LoopTask)
            /\ loop_pc' = LoopNextPc("None")
       ELSE /\ BeginFetch(FALSE)
            /\ loop_pc' = "fetching"
    /\ UNCHANGED <<cancel_req, term_pc, h_pc, h_cmd, last_reply>>
    /\ UNCHANGED fn_vars

\* Lines 87-94: the loop's fetch ends; an escaped exception is counted at
\* line 93 and followed by the error sleep.
LoopFetchDone ==
    /\ loop_pc = "fetching"
    /\ ~cancel_req
    /\ \E o \in Outcomes :
          LET s1 == AfterFetch(Fields, o, clock + 1)
              s2 == IF FetchResult(o) = "raised" THEN LoopCaught(s1) ELSE s1
          IN  /\ EndFetch(LoopTask, o, s2)
              /\ loop_pc' = LoopNextPc(FetchResult(o))
    /\ UNCHANGED <<cancel_req, term_pc, h_pc, h_cmd, last_reply>>
    /\ UNCHANGED fn_vars

\* Line 94 back to line 86: the error sleep ends.
LoopErrorSleepDone ==
    /\ loop_pc = "sleep60"
    /\ ~cancel_req
    /\ loop_pc' = "sleep5"
    /\ UNCHANGED <<prog, is_refreshing, cancel_req, term_pc, h_pc, h_cmd, last_reply,
                   clock, started, q_started, pre, published, last_outcome>>
    /\ UNCHANGED fn_vars

\* A cancellation that skips the finally clause of line 135: the guard of an
\* abandoned fetch stays taken.
LoopCancelledGuardKept ==
    /\ cancel_req
    /\ loop_pc # "done"
    /\ loop_pc' = AfterCancel(loop_pc)
    /\ cancel_req' = FALSE
    /\ IF loop_pc = "fetching"
       THEN /\ last_outcome' = Outcome(LoopTask, "cancelled")
            /\ UNCHANGED is_refreshing
       ELSE UNCHANGED <<is_refreshing, last_outcome>>
    /\ UNCHANGED <<prog, term_pc, h_pc, h_cmd, last_reply,
                   clock, started, q_started, pre, published>>
    /\ UNCHANGED fn_vars

\* A cancellation that the handler of line 129 takes for a failed request:
\* the abandoned fetch is counted as an error.
LoopCancelledAsFailure ==
    /\ cancel_req
    /\ loop_pc # "done"
    /\ loop_pc' = AfterCancel(loop_pc)
    /\ cancel_req' = FALSE
    /\ IF loop_pc = "fetching"
       THEN /\ is_refreshing' = FALSE
            /\ last_outcome' = Outcome(LoopTask, "cancelled")
            /\ SetFields(RecordFailure(Fields, clock + 1))
            /\ clock' = clock + 1
       ELSE UNCHANGED <<is_refreshing, last_outcome, prog, clock>>
    /\ UNCHANGED <<term_pc, h_pc, h_cmd, last_reply, started, q_started, pre, published>>
    /\ UNCHANGED fn_vars

\* Lines 88-90: CancelledError is thrown into the task at its suspension
\* point.  In the interval sleep and in the fetch it is caught at line 88;
\* in the error sleep it leaves the loop through the handler of line 91.  A
\* fetch in flight is abandoned at line 104 and only the finally clause of
\* line 135 runs.
LoopCancelled ==
    /\ cancel_req
    /\ loop_pc # "done"
    /\ loop_pc' = AfterCancel(loop_pc)
    /\ cancel_req' = FALSE
    /\ IF loop_pc = "fetching"
       THEN /\ is_refreshing' = FALSE
            /\ last_outcome' = Outcome(LoopTask, "cancelled")
       ELSE UNCHANGED <<is_refreshing, last_outcome>>
    /\ UNCHANGED <<prog, term_pc, h_pc, h_cmd, last_reply,
                   clock, started, q_started, pre, published>>
    /\ UNCHANGED fn_vars

\* ------------------------------------------------------- terminate

\* Lines 654-655: terminate() cancels the refresh task.
Terminate ==
    /\ term_pc = "idle"
    /\ term_pc' = "awaiting"
    /\ cancel_req' = TRUE
    /\ UNCHANGED <<prog, is_refreshing, loop_pc, h_pc, h_cmd, last_reply,
                   clock, started, q_started, pre, published, last_outcome>>
    /\ UNCHANGED fn_vars

\* Lines 656-662: the awaited task has finished and terminate() returns.
TerminateReturn ==
    /\ term_pc = "awaiting"
    /\ loop_pc = "done"
    /\ term_pc' = "returned"
    /\ UNCHANGED <<prog, is_refreshing, loop_pc, cancel_req, h_pc, h_cmd, last_reply,
                   clock, started, q_started, pre, published, last_outcome>>
    /\ UNCHANGED fn_vars

\* ------------------------------------------------ command handlers

\* The coroutine a command that arrives runs in: the handler coroutines are
\* alike, a new command takes the first that is idle.
Free(h) ==
    /\ h_pc[h] = "idle"
    /\ \A g \in Handlers : g < h => h_pc[g] # "idle"

\* Lines 339-354 and 394-423: a query command arrives.  With a snapshot, or
\* when the guard turns its bootstrap away, the handler answers at once.
Query(h, cmd) ==
    /\ Free(h)
    /\ IF NeedsBootstrap(data_cache)
       THEN IF Guarded(is_refreshing)
            THEN /\ TurnedAway(h)
                 /\ last_reply' = QueryReply(cmd, Fields, published, "None")
                 /\ UNCHANGED <<h_pc, h_cmd>>
            ELSE /\ BeginFetch(TRUE)
                 /\ h_pc' = [h_pc EXCEPT ![h] = "fetching"]
                 /\ h_cmd' = [h_cmd EXCEPT ![h] = cmd]
                 /\ UNCHANGED last_reply
       ELSE /\ last_reply' = QueryReply(cmd, Fields, published, "not_called")
            /\ UNCHANGED <<prog, is_refreshing, h_pc, h_cmd, clock, started,
                           q_started, pre, published, last_outcome>>
    /\ UNCHANGED <<loop_pc, cancel_req, term_pc>>
    /\ UNCHANGED fn_vars

\* Lines 524-547: the refresh command arrives.
Refresh(h) ==
    /\ Free(h)
    /\ IF Guarded(is_refreshing)
       THEN /\ TurnedAway(h)
            /\ last_reply' = RefreshReply(Fields, published, "None")
            /\ UNCHANGED <<h_pc, h_cmd>>
       ELSE /\ BeginFetch(FALSE)
            /\ h_pc' = [h_pc EXCEPT ![h] = "fetching"]
            /\ h_cmd' = [h_cmd EXCEPT ![h] = "refresh_goons"]
            /\ UNCHANGED last_reply
    /\ UNCHANGED <<loop_pc, cancel_req, term_pc>>
    /\ UNCHANGED fn_vars

\* Lines 554-607: the status command.
Status(h) ==
    /\ Free(h)
    /\ last_reply' = StatusReply(Fields, published)
    /\ UNCHANGED <<prog, is_refreshing, loop_pc, cancel_req, term_pc, h_pc, h_cmd,
                   clock, started, q_started, pre, published, last_outcome>>
    /\ UNCHANGED fn_vars

\* The handler's fetch ends and the handler builds its reply (lines 346-387,
\* 419-517, 531-547); an escaped exception goes to the handler's own except
\* clause.
HandlerFetchDone(h) ==
    /\ h_pc[h] = "fetching"
    /\ \E o \in Outcomes :
          LET s1 == AfterFetch(Fields, o, clock + 1)
              r == FetchResult(o)
              src == IF r = "True" THEN [data |-> o.data, at |-> clock + 1, before |-> published.data]
                                   ELSE published
          IN  /\ EndFetch(h, o, s1)
              /\ last_reply' =
                    IF r = "raised" THEN ErrorReply(h_cmd[h], src)
                    ELSE IF h_cmd[h] = "refresh_goons"
                         THEN RefreshReply(s1, src, r)
                         ELSE QueryReply(h_cmd[h], s1, src, r)
    /\ h_pc' = [h_pc EXCEPT ![h] = "idle"]
    /\ h_cmd' = [h_cmd EXCEPT ![h] = "none"]
    /\ UNCHANGED <<loop_pc, cancel_req, term_pc>>
    /\ UNCHANGED fn_vars

QueryCommands == {"query_goons", "query_goons_by_map"}

Next ==
    \/ LoopTick
    \/ LoopFetchDone
    \/ LoopErrorSleepDone
    \/ LoopCancelled
    \/ Terminate
    \/ TerminateReturn
    \/ \E h \in Handlers : \E cmd \in QueryCommands : Query(h, cmd)
    \/ \E h \in Handlers : Refresh(h)
    \/ \E h \in Handlers : Status(h)
    \/ \E h \in Handlers : HandlerFetchDone(h)

Spec == Init /\ [][Next]_vars


\* The fairness the scheduling gives: a timer that has run out fires, a
\* network request ends (it has a 10 second timeout, line 151), a pending
\* cancellation is delivered, and a terminate() whose awaited task is done
\* is resumed.  Command arrivals and terminate() itself are not forced.
FairSpec ==
    /\ Spec
    /\ WF_vars(LoopTick)
    /\ WF_vars(LoopFetchDone)
    /\ WF_vars(LoopErrorSleepDone)
    /\ WF_vars(LoopCancelled)
    /\ WF_vars(TerminateReturn)
    /\ WF_vars(\E h \in Handlers : HandlerFetchDone(h))

\* ------------------------------------- the reconcilers on their own

\* A timestamp without the zero padding, which strptime takes all the same
\* (1 June 2024, 9:00:00), and one of the right shape that is no date.
TimeUnpadded ==
    <<"2", "0", "2", "4", "-", "6", "-", "1", " ", "9", ":", "0", "0", ":", "0", "0">>

TimeNoDate == FormatTime(<<2024, 2, 30, 8, 0, 0>>)

\* The records the feeds below are made of: with and without a map name,
\* with and without a timestamp, two raw names of one display name.
SampleMaps == {<<>>, NameX, RawAX}

SampleTimes == {<<>>, TimeEarly, TimeLate, TimeUnpadded, TimeNoDate}

SampleRecords == {Rec(m, t) : m \in SampleMaps, t \in SampleTimes}

\* What the other mode holds meanwhile.
OtherModeLists ==
    {<<>>, <<Rec(NameY, TimeLate)>>, <<Rec(NameX, TimeLate), Rec(RawAX, TimeEarly)>>}

MkFeed(pvp, pve) == [tag |-> "dict", keys |-> {"PVP", "PVE"}, PVP |-> pvp, PVE |-> pve]

\* A payload with one of the two keys only.
OneKeyFeed(key, l) ==
    [tag |-> "dict", keys |-> {key},
     PVP |-> IF key = "PVP" THEN l ELSE <<>>,
     PVE |-> IF key = "PVE" THEN l ELSE <<>>]

\* _analyze_goons_location is about to be called with a payload: None, {},
\* a payload with one key, or one with a list of up to MaxRecords records
\* under PVP beside what PVE holds.
RecInit ==
    /\ PluginInit
    /\ fn_pc = "call"
    /\ fn_out = <<>>
    /\ \/ fn_in \in {NonePayload, EmptyPayload}
       \/ \E key \in {"PVP", "PVE"}, k \in 0..1 :
             \E l \in [1..k -> SampleRecords] : fn_in = OneKeyFeed(key, l)
       \/ \E k \in 0..MaxRecords :
             \E l \in [1..k -> SampleRecords], o \in OtherModeLists :
                fn_in = MkFeed(l, o)

\* Both plugins' _analyze_goons_location called with the same payload.
Reconcile ==
    /\ fn_pc = "call"
    /\ fn_out' = [goons |-> AnalyzeGoonsLocation(fn_in),
                  stateless |-> AnalyzeStateless(fn_in)]
    /\ fn_pc' = "ret"
    /\ UNCHANGED <<fn_in, plugin_vars>>

RecNext == Reconcile

RecSpec == RecInit /\ [][RecNext]_vars

\* ---------------------------------------- the display name on its own

\* The characters raw map names are made of here: a letter and the two
\* characters of the separator.
NameChars == {"A", " ", "/"}

\* _get_map_display_name is about to be called with a raw map name.
NameInit ==
    /\ PluginInit
    /\ fn_pc = "call"
    /\ fn_out = <<>>
    /\ \E k \in 0..MaxNameLen : fn_in \in [1..k -> NameChars]

\* Lines 211-216 (and lines 66-70 of the stateless plugin).
DisplayName ==
    /\ fn_pc = "call"
    /\ fn_out' = GetMapDisplayName(fn_in)
    /\ fn_pc' = "ret"
    /\ UNCHANGED <<fn_in, plugin_vars>>

NameNext == DisplayName

NameSpec == NameInit /\ [][NameNext]_vars

\* ---------------------------------------- the query by map on its own

\* A map as the service names it, by its English and its display name.
Customs == <<"C", "u", "s", "t", "o", "m", "s">>

Haiguan == <<"U6D77", "U5173">>

RawCustoms == Customs \o MAP_NAME_SEPARATOR \o Haiguan

\* What users ask for: an alias, the head of the English name, the display
\* name, a name of no map.
QueryInputs == {<<"H", "G">>, <<"C", "u", "s", "t">>, Haiguan, <<"Z", "z">>}

\* Sightings on one map, under its full raw name and under the display
\* name alone.
DetailRecords ==
    {Rec(RawCustoms, TimeEarly), Rec(RawCustoms, TimeLate), Rec(Haiguan, TimeLate)}

DetailOtherLists ==
    {<<>>,
     <<Rec(RawCustoms, TimeEarly), Rec(RawCustoms, TimeUnpadded), Rec(RawCustoms, TimeLate)>>}

\* The i-th of a row of maps with distinct names.
MapName(i) == <<"M">> \o Pad2(i)

\* n records on the maps from + 1 .. from + n.
DistinctMaps(from, n, t) == [i \in 1..n |-> Rec(MapName(from + i), t)]

\* query_goons_by_map has a snapshot and a map name: the snapshot holds
\* sightings on one map, or it holds distinct maps, the same or different
\* ones in the two modes.
QueryInit ==
    /\ PluginInit
    /\ fn_pc = "call"
    /\ fn_out = <<>>
    /\ \E q \in QueryInputs :
          \/ \E k \in 0..MaxMatches :
                \E l \in [1..k -> DetailRecords], o \in DetailOtherLists :
                   fn_in = [map_input |-> q, data |-> MkFeed(l, o)]
          \/ \E np \in 0..MaxMode, ne \in 0..MaxMode :
                \E from \in {0, np} :
                   fn_in = [map_input |-> q,
                            data |-> MkFeed(DistinctMaps(0, np, TimeLate),
                                            DistinctMaps(from, ne, TimeEarly))]

\* Lines 419-517 with the default alias table.
QueryMap ==
    /\ fn_pc = "call"
    /\ fn_out' = QueryByMap(DefaultAliases, fn_in.map_input, fn_in.data)
    /\ fn_pc' = "ret"
    /\ UNCHANGED <<fn_in, plugin_vars>>

QueryNext == QueryMap

QuerySpec == QueryInit /\ [][QueryNext]_vars

\* ------------------------------------------- the alias table on its own

\* Lines of maps.txt: two maps that share aliases, blanks and capitals to be
\* cleaned away, a display name that is the lower case of another, a comment,
\* a blank line, a line without a bar, and a map given again without aliases.
SampleLines ==
    { <<"A", "|", "x", ",", "y">>,
      <<" ", "B", " ", "|", " ", "X", " ", ",", ",", "y", " ">>,
      <<"a", "|", "A">>,
      <<"#", " ", "c", "|", "z">>,
      <<" ">>,
      <<"x", ",", "y">>,
      <<"A", "|">> }

\* What users ask for.
SampleQueries == {<<"x">>, <<"X">>, <<"A">>, <<"y">>, <<"z">>, <<"H", "G">>, Haiguan}

\* __init__ is about to load maps.txt, and a query will follow.
AliasInit ==
    /\ PluginInit
    /\ fn_pc = "call"
    /\ fn_out = <<>>
    /\ \E q \in SampleQueries :
          \/ \E f \in {NoFile, BadFile} : fn_in = [file |-> f, query |-> q]
          \/ \E k \in 0..MaxLines :
                \E l \in [1..k -> SampleLines] : fn_in = [file |-> TextFile(l), query |-> q]

\* Line 38: self.map_aliases = self._load_map_aliases().
LoadAliases ==
    /\ fn_pc = "call"
    /\ fn_out' = [table |-> LoadMapAliases(fn_in.file), found |-> NoneStr, name |-> <<>>]
    /\ fn_pc' = "loaded"
    /\ UNCHANGED <<fn_in, plugin_vars>>

\* Lines 426-430: the query is resolved against the table.
ResolveQuery ==
    /\ fn_pc = "loaded"
    /\ fn_out' = [fn_out EXCEPT !.found = GetDisplayNameByAlias(fn_out.table, fn_in.query),
                                !.name = ResolveName(fn_out.table, fn_in.query)]
    /\ fn_pc' = "ret"
    /\ UNCHANGED <<fn_in, plugin_vars>>

AliasNext == LoadAliases \/ ResolveQuery

AliasSpec == AliasInit /\ [][AliasNext]_vars

\* ------------------------------------------------------------ claims

\* Number of tasks suspended in the network request of line 104.
InFlight ==
    Cardinality({h \in Handlers : h_pc[h] = "fetching"})
        + (IF loop_pc = "fetching" THEN 1 ELSE 0)

\* A step in which a call of _fetch_data_async that had started a request
\* ends with a failure: it returns False or lets an exception escape.
FailedFetchStep ==
    /\ is_refreshing
    /\ ~is_refreshing'
    /\ last_outcome'.result \in {"False", "raised"}

\* C1: at most one fetch is in flight at any time, whatever the interleaving
\* of ticks, manual refreshes and bootstrap fetches of queries.
C1_AtMostOneFetchInFlight == InFlight <= 1

\* C1 witness: a manual refresh was turned away by the guard while the
\* fetch of a tick is in flight.
C1_Witness ==
    /\ loop_pc = "fetching"
    /\ last_outcome.task \in Handlers
    /\ last_outcome.result = "None"
    /\ last_reply.cmd = "refresh_goons"
    /\ last_reply.fetch = "None"

\* C2: a failed fetch leaves data_cache and last_update_time as they were
\* when the attempt started.
C2_FailedFetchKeepsSnapshot ==
    [][FailedFetchStep =>
          /\ data_cache' = pre.data_cache
          /\ last_update_time' = pre.last_update_time]_vars

\* C2 witness: a fetch has failed after a snapshot had been published, and
\* the snapshot is still there.
C2_Witness ==
    /\ ~is_refreshing
    /\ last_outcome.result = "False"
    /\ last_fetch_error # NoTime
    /\ Truthy(data_cache)
    /\ last_update_time # NoTime

\* C3 (as claimed): a fetch that returns False increments error_count by one
\* and leaves the success counter fetch_count unchanged.
C3_FailedFetchCountsOnlyError ==
    [][(FailedFetchStep /\ last_outcome'.result = "False") =>
          /\ error_count' = error_count + 1
          /\ fetch_count' = fetch_count]_vars

\* C4 (as claimed): after a failed fetch of the background loop the loop is
\* in the long cool-down sleep before its next fetch.
C4_FailedLoopFetchBacksOff ==
    [][(FailedFetchStep /\ loop_pc = "fetching"
            /\ last_outcome'.task = LoopTask /\ last_outcome'.result = "False") =>
          SleepLength(loop_pc') = ERROR_SLEEP]_vars


\* C5: the polling loop ends only by cancellation, and while it has not been
\* cancelled it starts another fetch (as long as the model's budget of
\* requests is not used up).
C5_LoopNeverStops ==
    /\ [](loop_pc = "done" => term_pc # "idle")
    /\ []((term_pc = "idle" /\ started < MaxFetches) =>
             <>(loop_pc = "fetching" \/ term_pc # "idle" \/ started = MaxFetches))

\* C5 witness: after an exception that escaped the loop body and the error
\* sleep, the loop, not cancelled, has a fetch in flight again.
C5_Witness ==
    /\ term_pc = "idle"
    /\ loop_pc = "fetching"
    /\ last_outcome = Outcome(LoopTask, "raised")

\* C6: once terminate() has cancelled the refresh task the loop starts no
\* fetch, the task ends, and terminate() returns, and it returns only after
\* the task has ended.
C6_ShutdownClean ==
    /\ [][term_pc # "idle" => ~(loop_pc # "fetching" /\ loop_pc' = "fetching")]_vars
    /\ [](term_pc = "returned" => loop_pc = "done")
    /\ (term_pc = "awaiting") ~> (term_pc = "returned")

\* C6 witness: terminate() has returned after cancelling the loop in the
\* middle of a fetch, while the fetch of a command handler is in flight.
C6_Witness ==
    /\ term_pc = "returned"
    /\ loop_pc = "done"
    /\ last_outcome = Outcome(LoopTask, "cancelled")
    /\ \E h \in Handlers : h_pc[h] = "fetching"

\* C7 (as claimed): over the process lifetime the queries start at most one
\* fetch.
C7_AtMostOneBootstrapEver == q_started <= 1

\* C7 (amended): a query starts a fetch only when there is no snapshot and
\* no fetch in flight at the moment it is issued, and one at a time.
C7_BootstrapOnlyWithoutSnapshot ==
    [][q_started' # q_started =>
          /\ q_started' = q_started + 1
          /\ data_cache = NonePayload
          /\ ~is_refreshing]_vars

\* C7 witness: a second bootstrap fetch, started after a first one failed,
\* has published the snapshot.
C7_Witness ==
    /\ q_started = 2
    /\ last_reply.cmd \in QueryCommands
    /\ last_reply.fetch = "True"
    /\ Truthy(data_cache)

\* C8 (as claimed): a query answers "no data" only when the bootstrap fetch
\* it started itself failed.
C8_NoDataOnlyAfterOwnFailure ==
    last_reply.text \in NoDataTexts => last_reply.fetch = "False"

\* C9: the snapshot is absent or is the payload of one successful fetch
\* together with that fetch's time, and every reply that shows data shows
\* the payload and the update time of the same fetch.
C9_NoTornSnapshot ==
    /\ \/ /\ data_cache = NonePayload
          /\ last_update_time = NoTime
          /\ published = NothingPublished
       \/ /\ Truthy(data_cache)
          /\ data_cache = published.data
          /\ last_update_time = published.at
          /\ published.at # NoTime
    /\ last_reply.text \in {"listing", "map_detail", "refreshed", "status"} =>
          /\ last_reply.data = last_reply.src.data
          /\ last_reply.time = last_reply.src.at

\* C9 witness: a listing built from the published snapshot while the next
\* fetch is in flight.
C9_Witness ==
    /\ is_refreshing
    /\ last_reply.text = "listing"
    /\ last_reply.fetch = "not_called"
    /\ last_reply.data = FeedB
    /\ last_reply.time = published.at
    /\ published.at # NoTime

\* C10: with a snapshot the queries start no fetch, and a reply sent without
\* fetching (a query with a snapshot, the status command in any state)
\* leaves the cache, the statistics and the guard unchanged; the fields
\* change only in the step that ends a fetch.
C10_QueriesArePureReads ==
    [][/\ Truthy(data_cache) => q_started' = q_started
       /\ (last_reply' # last_reply /\ last_reply'.fetch = "not_called") =>
             UNCHANGED <<prog, is_refreshing, started, q_started>>
       /\ prog' # prog => (is_refreshing /\ ~is_refreshing')]_vars

\* C10 witness: the status command answered while no snapshot exists and a
\* fetch had failed.
C10_Witness ==
    /\ last_reply.cmd = "goons_status"
    /\ last_reply.data = NonePayload
    /\ error_count > 0

\* The display names of the valid records a payload has under a key.
DisplayNames(data, key) ==
    LET l == ModeList(data, key)
    IN  {GetMapDisplayName(l[i].map) : i \in {j \in 1..Len(l) : IsValidRecord(l[j])}}

\* C11: the mappings a listing shows are those of the most recent successful
\* feed alone: every map listed for a mode is a map of that feed's records
\* of the mode, with the timestamp reconciled from that feed, whatever the
\* feeds fetched before it held.
C11_NoCrossFetchMerge ==
    last_reply.text = "listing" =>
        /\ Listing(last_reply) = AnalyzeGoonsLocation(last_reply.src.data)
        /\ \A key \in {"PVP", "PVE"} :
              DOMAIN Listing(last_reply)[key] = DisplayNames(last_reply.src.data, key)

\* C11 witness: a listing after FeedB replaced FeedA: map Y of FeedA is gone,
\* and map X has the older timestamp FeedB gives it.
C11_Witness ==
    /\ last_reply.text = "listing"
    /\ last_reply.src.data = FeedB
    /\ last_reply.src.before = FeedA
    /\ NameY \in DOMAIN AnalyzeGoonsLocation(FeedA).PVP
    /\ NameY \notin DOMAIN Listing(last_reply).PVP
    /\ AnalyzeGoonsLocation(FeedA).PVP[NameX] = TimeLate
    /\ Listing(last_reply).PVP[NameX] = TimeEarly

\* A step in which a call of _fetch_data_async ends by publishing a payload.
SuccessfulFetchStep ==
    /\ is_refreshing
    /\ ~is_refreshing'
    /\ last_outcome'.result = "True"

\* C12 (as claimed): in every step fetch_count and error_count do not
\* decrease, and last_successful_fetch and last_fetch_error, once set, are
\* neither cleared nor moved to an earlier instant.
C12_StatsMonotone ==
    [][/\ fetch_count' >= fetch_count
       /\ error_count' >= error_count
       /\ last_successful_fetch # NoTime =>
             (last_successful_fetch' # NoTime
                 /\ last_successful_fetch' >= last_successful_fetch)
       /\ last_fetch_error # NoTime =>
             (last_fetch_error' # NoTime
                 /\ last_fetch_error' >= last_fetch_error)]_vars

\* C12 (amended): the two counters do not decrease and last_successful_fetch,
\* once set, is neither cleared nor moved earlier; last_fetch_error is
\* never moved to an earlier instant, but it is cleared by every successful
\* fetch, and by nothing else.
C12_StatsMonotoneButErrorCleared ==
    [][/\ fetch_count' >= fetch_count
       /\ error_count' >= error_count
       /\ last_successful_fetch # NoTime =>
             (last_successful_fetch' # NoTime
                 /\ last_successful_fetch' >= last_successful_fetch)
       /\ (last_fetch_error # NoTime /\ last_fetch_error' # NoTime) =>
             last_fetch_error' >= last_fetch_error
       /\ (last_fetch_error # NoTime /\ last_fetch_error' = NoTime) =>
             SuccessfulFetchStep
       /\ SuccessfulFetchStep => last_fetch_error' = NoTime]_vars

\* C12 witness: two requests were answered, the first with nothing usable,
\* which set last_fetch_error, the second with a feed, which cleared it.
C12_Witness ==
    /\ fetch_count = 2
    /\ error_count = 1
    /\ last_successful_fetch = 2
    /\ last_outcome.result = "True"
    /\ last_fetch_error = NoTime

\* The records of the payload fn_in under a key that have a map name and a
\* timestamp, and those among them of one display name.
ValidRecordsOf(key) ==
    LET l == IF key \in fn_in.keys THEN fn_in[key] ELSE <<>>
    IN  {l[i] : i \in {j \in 1..Len(l) : l[j].map # <<>> /\ l[j].update_time # <<>>}}

ValidRecordsNamed(key, name) ==
    {r \in ValidRecordsOf(key) : GetMapDisplayName(r.map) = name}

Reconcilers == {"goons", "stateless"}

Modes == {"PVP", "PVE"}

WellFormedTimes ==
    {t \in SampleTimes : ParseTime(t).ok /\ FormatTime(ParseTime(t).val) = t}

MomentOf == [t \in WellFormedTimes |-> ParseTime(t).val]

AllWellFormed ==
    \A key \in Modes : \A r \in ValidRecordsOf(key) : r.update_time \in WellFormedTimes

\* C14: where every timestamp is well formed, both reconcilers keep for
\* every display name of a mode a timestamp of one of its valid records of
\* that mode than which none of them is later, in whatever order they come.
C14_LatestWins ==
    (fn_pc = "ret" /\ AllWellFormed) =>
        \A rc \in Reconcilers, key \in Modes :
            \A name \in DOMAIN fn_out[rc][key] :
                LET kept == fn_out[rc][key][name]
                IN  /\ \E r \in ValidRecordsNamed(key, name) : r.update_time = kept
                    /\ \A r \in ValidRecordsNamed(key, name) :
                          ~TupleGreater(MomentOf[r.update_time], MomentOf[kept])

\* C14 witness: three sightings on one map under two raw names, the latest
\* in the middle; both reconcilers keep the latest.
C14_Witness ==
    /\ fn_pc = "ret"
    /\ fn_in.PVP = <<Rec(NameX, TimeEarly), Rec(RawAX, TimeLate), Rec(NameX, TimeEarly)>>
    /\ fn_out.goons.PVP[NameX] = TimeLate
    /\ fn_out.stateless.PVP[NameX] = TimeLate

\* C15: on a payload whose timestamps are all in the fixed zero-padded
\* format the two reconcilers return the same two mappings.
C15_ReconcilersAgree ==
    (fn_pc = "ret" /\ AllWellFormed) => fn_out.goons = fn_out.stateless

\* C15 witness: in both modes a later sighting is followed by an earlier one
\* on the same map; the two results are the same and keep the later one.
C15_Witness ==
    /\ fn_pc = "ret"
    /\ fn_in.PVP = <<Rec(RawAX, TimeLate), Rec(NameX, TimeEarly)>>
    /\ fn_in.PVE = <<Rec(NameX, TimeLate), Rec(RawAX, TimeEarly)>>
    /\ fn_out.goons = fn_out.stateless
    /\ fn_out.goons.PVP[NameX] = TimeLate
    /\ fn_out.stateless.PVE[NameX] = TimeLate

\* C16 (as claimed): the display name of a raw name that contains the
\* separator is everything that follows the separator, and the display
\* name of a raw name without it is the raw name.
C16_DisplayNameIsRestAfterSeparator ==
    fn_pc = "ret" =>
        LET n == Len(MAP_NAME_SEPARATOR)
            places == {i \in 1..(Len(fn_in) - n + 1) :
                          SubSeq(fn_in, i, i + n - 1) = MAP_NAME_SEPARATOR}
            first == CHOOSE i \in places : \A j \in places : i <= j
        IN  fn_out = IF places # {}
                     THEN SubSeq(fn_in, first + n, Len(fn_in))
                     ELSE fn_in

\* The query of fn_in matched no map of the snapshot.
Unmatched == fn_pc = "ret" /\ ~fn_out.api.some

\* The display names of the named records among the first n of a list.
NamesAmongFirst(l, n) ==
    {GetMapDisplayName(l[i].map) : i \in {j \in 1..Len(l) : j <= n /\ l[j].map # <<>>}}

\* C17 (as claimed): a query that matches no map gets a list of at most 10
\* distinct map names.
C17_DiscoveryListAtMostTen ==
    Unmatched =>
        /\ fn_out.kind \in {"available_maps", "nothing_available"}
        /\ \A i, j \in 1..Len(fn_out.maps) : fn_out.maps[i] = fn_out.maps[j] => i = j
        /\ Len(fn_out.maps) <= DISCOVERY_SCAN

\* C17 (amended): a query that matches no map gets the list, without
\* repetition, of the display names of the named records among the first 10
\* PVP records and the first 10 PVE records: at most 20 names.
C17_DiscoveryListAtMostTenPerMode ==
    Unmatched =>
        /\ fn_out.kind \in {"available_maps", "nothing_available"}
        /\ \A i, j \in 1..Len(fn_out.maps) : fn_out.maps[i] = fn_out.maps[j] => i = j
        /\ {fn_out.maps[i] : i \in 1..Len(fn_out.maps)} =
              NamesAmongFirst(fn_in.data.PVP, DISCOVERY_SCAN)
                  \cup NamesAmongFirst(fn_in.data.PVE, DISCOVERY_SCAN)
        /\ Len(fn_out.maps) <= 2 * DISCOVERY_SCAN

\* C17 witness: eleven maps in PVP and eleven others in PVE; the list has
\* twenty names, without the eleventh of either mode.
C17_Witness ==
    /\ Unmatched
    /\ Len(fn_in.data.PVP) = 11
    /\ Len(fn_in.data.PVE) = 11
    /\ Len(fn_out.maps) = 20
    /\ \A i \in 1..20 : fn_out.maps[i] \notin {MapName(11), MapName(22)}

\* The query of fn_in matched a map of the snapshot.
Matched == fn_pc = "ret" /\ fn_out.kind = "map_records"

\* The name the query of fn_in is looked up under, and the places of the
\* records of a mode with a given display name, or a given raw name.
ResolvedName == ResolveName(DefaultAliases, fn_in.map_input)

PlacesNamed(key, name) ==
    {i \in 1..Len(fn_in.data[key]) :
        /\ fn_in.data[key][i].map # <<>>
        /\ GetMapDisplayName(fn_in.data[key][i].map) = name}

PlacesOfRaw(key, raw) ==
    {i \in 1..Len(fn_in.data[key]) : fn_in.data[key][i].map = raw}

\* C18 (as claimed): every record an answer counts or shows has the resolved
\* name as its display name, and the answer counts every record of the
\* snapshot with that display name.
C18_CountsExactDisplayNameMatches ==
    Matched =>
        LET name == ResolvedName
        IN  \A key \in Modes :
                /\ fn_out[key].count = Cardinality(PlacesNamed(key, name))
                /\ \A i \in 1..Len(fn_out[key].shown) :
                      /\ fn_out[key].shown[i].map # <<>>
                      /\ GetMapDisplayName(fn_out[key].shown[i].map) = name

\* C18 (amended): the answer is about one raw map name of the snapshot: the
\* raw name of a record whose display name is the resolved name or, when no
\* record has that display name, of a record whose raw name contains the
\* resolved name.  It counts exactly the records with that raw name, and
\* shows only such records.
C18_CountsExactRawNameMatches ==
    Matched =>
        LET api == fn_out.api.val
            name == ResolvedName
        IN  /\ fn_out.api.some
            /\ api # <<>>
            /\ \E key \in Modes : PlacesOfRaw(key, api) # {}
            /\ IF \E key \in Modes : PlacesNamed(key, name) # {}
               THEN GetMapDisplayName(api) = name
               ELSE Contains(api, name)
            /\ \A key \in Modes :
                  /\ fn_out[key].count = Cardinality(PlacesOfRaw(key, api))
                  /\ \A i \in 1..Len(fn_out[key].shown) : fn_out[key].shown[i].map = api

\* C18 witness: the head of the English name is asked for; no display name
\* equals it, the raw name that contains it is taken, its two records are
\* counted, and the record under the display name alone is not.
C18_Witness ==
    /\ Matched
    /\ fn_in.map_input = <<"C", "u", "s", "t">>
    /\ fn_in.data.PVP = <<Rec(Haiguan, TimeLate), Rec(RawCustoms, TimeEarly), Rec(RawCustoms, TimeLate)>>
    /\ fn_out.api.val = RawCustoms
    /\ fn_out.title = Haiguan
    /\ fn_out.PVP.count = 2

\* The timestamps of the records of a mode on the map of the answer, and
\* how many of the records of a list carry a given timestamp.
MatchingTimes(key) ==
    LET l == fn_in.data[key]
    IN  [i \in {j \in 1..Len(l) : l[j].map = fn_out.api.val} |-> l[i].update_time]

TimesCounted(f, t) == Cardinality({i \in DOMAIN f : f[i] = t})

\* C19: for each mode, with n records on the map, the answer shows
\* min(5, n) of them, newest first by their timestamps; no record left out
\* is newer than one shown; and the "more" line is there, with n - 5,
\* exactly when n > 5.
C19_NewestFiveShown ==
    Matched =>
        \A key \in Modes :
            LET all == MatchingTimes(key)
                n == Cardinality(DOMAIN all)
                shown == [i \in 1..Len(fn_out[key].shown) |-> fn_out[key].shown[i].update_time]
            IN  /\ Len(shown) = Min(SHOWN_RECORDS, n)
                /\ \A i, j \in 1..Len(shown) : i < j => ~StrGreater(shown[j], shown[i])
                /\ \A t \in {all[i] : i \in DOMAIN all} :
                      /\ TimesCounted(shown, t) <= TimesCounted(all, t)
                      /\ TimesCounted(shown, t) < TimesCounted(all, t) =>
                            \A k \in 1..Len(shown) : ~StrGreater(t, shown[k])
                /\ \A k \in 1..Len(shown) : \E i \in DOMAIN all : all[i] = shown[k]
                /\ fn_out[key].more = IF n > SHOWN_RECORDS THEN <<n - SHOWN_RECORDS>> ELSE <<>>

\* C19 witness: six PVP records on the map, older and newer ones mixed: the
\* three newer and two of the older are shown, newest first, and one more
\* is announced; the three PVE records are all shown, without a "more" line.
C19_Witness ==
    /\ Matched
    /\ fn_in.map_input = <<"H", "G">>
    /\ fn_in.data.PVP = <<Rec(RawCustoms, TimeEarly), Rec(RawCustoms, TimeLate),
                          Rec(RawCustoms, TimeEarly), Rec(RawCustoms, TimeLate),
                          Rec(RawCustoms, TimeEarly), Rec(RawCustoms, TimeLate)>>
    /\ [i \in 1..5 |-> fn_out.PVP.shown[i].update_time] =
          <<TimeLate, TimeLate, TimeLate, TimeEarly, TimeEarly>>
    /\ fn_out.PVP.more = <<1>>
    /\ Len(fn_out.PVE.shown) = 3
    /\ fn_out.PVE.more = <<>>

\* The lower-cased names an entry of a table answers to, and the entries of
\* the loaded table that answer to a query.
KeysOf(entry) ==
    {StrLower(entry.name)} \cup {StrLower(entry.aliases[i]) : i \in 1..Len(entry.aliases)}

EntriesFor(q) ==
    {i \in 1..Len(fn_out.table) : StrLower(q) \in KeysOf(fn_out.table[i])}

\* C20 (as claimed): whatever table was loaded, at most one of its entries
\* answers to the query, and the query resolves to the same name when the
\* table is gone through in the opposite order.
C20_AtMostOneEntryMatches ==
    fn_pc = "ret" =>
        /\ Cardinality(EntriesFor(fn_in.query)) <= 1
        /\ LET n == Len(fn_out.table)
               reversed == [i \in 1..n |-> fn_out.table[n + 1 - i]]
           IN  fn_out.found = GetDisplayNameByAlias(reversed, fn_in.query)

\* C20 (amended): the display names of a loaded table are distinct, and a
\* query resolves to the display name of the first entry, in the order of
\* the file, that answers to it, and to nothing when none does; in the
\* default table no two entries answer to the same name, so there at most
\* one entry answers to a query.
C20_FirstMatchInFileOrder ==
    fn_pc = "ret" =>
        LET table == fn_out.table
            hits == EntriesFor(fn_in.query)
        IN  /\ \A i, j \in 1..Len(table) : table[i].name = table[j].name => i = j
            /\ hits = {} => ~fn_out.found.some
            /\ hits # {} =>
                  /\ fn_out.found.some
                  /\ \E i \in hits : /\ fn_out.found.val = table[i].name
                                     /\ \A j \in hits : i <= j
            /\ (~fn_in.file.exists \/ ~fn_in.file.readable) =>
                  /\ table = DefaultAliases
                  /\ \A i, j \in 1..Len(table) :
                        i # j => KeysOf(table[i]) \cap KeysOf(table[j]) = {}
                  /\ Cardinality(hits) <= 1

\* C20 witness: two lines give the alias x to the maps A and B; the query X
\* is answered by both entries and resolves to A, the first of the file.
C20_Witness ==
    /\ fn_pc = "ret"
    /\ fn_in.file.lines = << <<"A", "|", "x", ",", "y">>,
                             <<" ", "B", " ", "|", " ", "X", " ", ",", ",", "y", " ">> >>
    /\ fn_in.query = <<"X">>
    /\ fn_out.table = << [name |-> <<"A">>, aliases |-> << <<"x">>, <<"y">> >>],
                         [name |-> <<"B">>, aliases |-> << <<"x">>, <<"y">> >>] >>
    /\ EntriesFor(fn_in.query) = {1, 2}
    /\ fn_out.found = SomeStr(<<"A">>)

\* str.upper() of one character, and the spellings of a string that differ
\* from it in the case of letters only.
UpperChar(c) ==
    IF IndexIn(c, LowerCase) # 0 THEN UpperCase[IndexIn(c, LowerCase)] ELSE c

RECURSIVE CaseVariants(_)
CaseVariants(s) ==
    IF s = <<>> THEN {<<>>}
    ELSE {<<c>> \o r : c \in {LowerChar(Head(s)), UpperChar(Head(s))},
                        r \in CaseVariants(Tail(s))}

\* The spellings that are tried: any capitals in the first MaxVaried
\* characters, the rest as written or all in capitals.
Spellings(s) ==
    LET n == Min(Len(s), MaxVaried)
        rest == SubSeq(s, n + 1, Len(s))
    IN  {h \o t : h \in CaseVariants(SubSeq(s, 1, n)),
                  t \in {rest, [i \in 1..Len(rest) |-> UpperChar(rest[i])]}}

\* C21 (as claimed): after a query was resolved against the loaded table,
\* every spelling of the query in other capitals resolves to the same
\* result, and every spelling, in any capitals, of the display name or of an
\* alias of an entry resolves to that entry's display name.
C21_EveryNameResolvesToItsEntry ==
    fn_pc = "ret" =>
        LET table == fn_out.table
        IN  /\ \A v \in Spellings(fn_in.query) :
                  GetDisplayNameByAlias(table, v) = fn_out.found
            /\ \A i \in 1..Len(table) : \A k \in KeysOf(table[i]) :
                  \A v \in Spellings(k) :
                      GetDisplayNameByAlias(table, v) = SomeStr(table[i].name)

\* C21 (amended): every spelling of the query in other capitals resolves to
\* the same result; every spelling of a configured display name or alias
\* resolves to a display name, never to nothing, namely to that of the first
\* entry of the table that answers to it, which is the entry it is configured
\* for unless an earlier entry answers to the same name; in the default table
\* it always is the entry it is configured for.
C21_CaseInsensitiveFirstEntry ==
    fn_pc = "ret" =>
        LET table == fn_out.table
        IN  /\ \A v \in Spellings(fn_in.query) :
                  GetDisplayNameByAlias(table, v) = fn_out.found
            /\ \A i \in 1..Len(table) : \A k \in KeysOf(table[i]) :
                  LET first == CHOOSE j \in 1..i :
                                  /\ k \in KeysOf(table[j])
                                  /\ \A h \in 1..(j - 1) : k \notin KeysOf(table[h])
                  IN  /\ \A v \in Spellings(k) :
                            GetDisplayNameByAlias(table, v) = SomeStr(table[first].name)
                      /\ table = DefaultAliases => first = i

\* C21 witness: the file gives the map B the alias X between blanks and the
\* map a the alias A; the query X resolves to B, as the alias in small
\* letters does, and each of A and a resolves to the map a.
C21_Witness ==
    /\ fn_pc = "ret"
    /\ fn_in.file.lines = << <<" ", "B", " ", "|", " ", "X", " ", ",", ",", "y", " ">>,
                             <<"a", "|", "A">> >>
    /\ fn_in.query = <<"X">>
    /\ fn_out.found = SomeStr(<<"B">>)
    /\ GetDisplayNameByAlias(fn_out.table, <<"x">>) = SomeStr(<<"B">>)
    /\ GetDisplayNameByAlias(fn_out.table, <<"b">>) = SomeStr(<<"B">>)
    /\ GetDisplayNameByAlias(fn_out.table, <<"A">>) = SomeStr(<<"a">>)
    /\ CaseVariants(<<"X">>) = {<<"x">>, <<"X">>}

\* The timestamps of the feeds that strptime rejects, so that the comparison
\* of goons lines 306-309 cannot be made.
MalformedTimes == {t \in SampleTimes : t # <<>> /\ ~ParseTime(t).ok}

\* C22: reconciling never fails and loses no display name: every display
\* name of a valid record is in the mapping with the timestamp of one of its
\* records; and in the reconciler that parses timestamps, when the last valid
\* record of a display name, or the one before it (whose timestamp is then
\* the stored one), has a timestamp that cannot be parsed, the mapping holds
\* the timestamp of the last one.
C22_UnparsableLastWriteWins ==
    fn_pc = "ret" =>
        \A key \in Modes :
            LET l == IF key \in fn_in.keys THEN fn_in[key] ELSE <<>>
            IN  \A name \in {GetMapDisplayName(r.map) : r \in ValidRecordsOf(key)} :
                    LET places == {i \in 1..Len(l) :
                                      /\ l[i].map # <<>>
                                      /\ l[i].update_time # <<>>
                                      /\ GetMapDisplayName(l[i].map) = name}
                        last == CHOOSE j \in places : \A i \in places : i <= j
                        earlier == places \ {last}
                    IN  /\ \A rc \in Reconcilers :
                              /\ name \in DOMAIN fn_out[rc][key]
                              /\ \E i \in places : fn_out[rc][key][name] = l[i].update_time
                        /\ earlier # {} =>
                              LET prev == CHOOSE j \in earlier : \A i \in earlier : i <= j
                              IN  (\/ l[last].update_time \in MalformedTimes
                                   \/ l[prev].update_time \in MalformedTimes)
                                  => fn_out.goons[key][name] = l[last].update_time

\* C22 witness: a sighting dated 30 February comes after a later, well
\* formed one on the same map and replaces it, and an earlier moment that
\* follows replaces the one of 30 February in its turn: the parsing
\* reconciler ends with the last written, the other one with the greatest
\* string.
C22_Witness ==
    /\ fn_pc = "ret"
    /\ fn_in.PVP = <<Rec(NameX, TimeLate), Rec(RawAX, TimeNoDate), Rec(NameX, TimeEarly)>>
    /\ TimeNoDate \in MalformedTimes
    /\ fn_out.goons.PVP[NameX] = TimeEarly
    /\ fn_out.stateless.PVP[NameX] = TimeLate

\* C23: is_refreshing is set exactly while one call of _fetch_data_async is
\* in its request; so once that call has ended, however it ended, the guard
\* is free, and (below the bound on requests) a manual refresh that arrives
\* and a tick whose sleep has run out start a new request.
C23_GuardNeverStuck ==
    /\ is_refreshing <=> (InFlight = 1)
    /\ (InFlight = 0 /\ started < MaxFetches) =>
          /\ ENABLED (\E h \in Handlers : Refresh(h) /\ h_pc'[h] = "fetching")
          /\ (loop_pc = "sleep5" /\ ~cancel_req) =>
                ENABLED (LoopTick /\ loop_pc' = "fetching")

\* C23 witness: the refresh task was cancelled while its request was in
\* flight, and a manual refresh that came afterwards has its own request in
\* flight.
C23_Witness ==
    /\ loop_pc = "done"
    /\ last_outcome = Outcome(LoopTask, "cancelled")
    /\ is_refreshing
    /\ \E h \in Handlers : h_pc[h] = "fetching" /\ h_cmd[h] = "refresh_goons"
    /\ started = 2

\* C24 (as claimed): refresh_goons answers that the data were refreshed only
\* when its own call published a snapshot, and that the refresh failed only
\* when a request made by its own call failed; a refresh turned away by the
\* guard reports no failure and changes no cache or statistics field.
C24_RefreshReportsWhatHappened ==
    /\ [](last_reply.cmd = "refresh_goons" =>
            /\ last_reply.text = "refreshed" =>
                  /\ last_reply.fetch = "True"
                  /\ last_reply.data = last_reply.src.data
            /\ last_reply.text \in {"refresh_failed", "refresh_failed_since_error"} =>
                  last_reply.fetch = "False"
            /\ last_reply.fetch = "None" =>
                  last_reply.text \notin {"refresh_failed", "refresh_failed_since_error"})
    /\ [][(/\ is_refreshing
           /\ last_reply'.cmd = "refresh_goons"
           /\ last_reply'.fetch = "None"
           /\ last_outcome'.result = "None") => UNCHANGED <<prog, is_refreshing>>]_vars

\* C25: when the refresh task is cancelled in the middle of a fetch, the
\* snapshot, its time and the four statistics fields are left as they were
\* when that fetch started, and the task starts nothing afterwards.
C25_CancelledFetchHasNoEffect ==
    [][(cancel_req /\ loop_pc = "fetching" /\ loop_pc' # "fetching") =>
          /\ Fields' = pre
          /\ Fields' = Fields
          /\ last_outcome' = Outcome(LoopTask, "cancelled")
          /\ loop_pc' = "done"]_vars

\* C25 witness: a first fetch published a snapshot, the second one, made by
\* the refresh task, was cancelled in flight; one fetch is counted, no
\* error, and the snapshot is that of the first fetch.
C25_Witness ==
    /\ last_outcome = Outcome(LoopTask, "cancelled")
    /\ started = 2
    /\ fetch_count = 1
    /\ error_count = 0
    /\ last_fetch_error = NoTime
    /\ data_cache = published.data
    /\ Truthy(data_cache)
    /\ last_update_time = published.at
    /\ last_successful_fetch = published.at
    /\ ~is_refreshing

\* C26: the snapshot is absent exactly when the update time is unset and
\* exactly when the time of the last successful fetch is unset; the snapshot
\* is never the empty payload: a fetch whose request returns {} ends as a
\* failed one, counted as an error, and leaves the snapshot as it was; and a
\* snapshot that exists is never absent afterwards.
C26_SnapshotPresenceStable ==
    /\ [](/\ (data_cache = NonePayload) <=> (last_update_time = NoTime)
          /\ (data_cache = NonePayload) <=> (last_successful_fetch = NoTime)
          /\ data_cache # EmptyPayload
          /\ published.data # EmptyPayload)
    /\ [][/\ data_cache # NonePayload => data_cache' # NonePayload
          /\ (is_refreshing /\ ~is_refreshing' /\ last_outcome'.got = EmptyPayload) =>
                /\ last_outcome'.result = "False"
                /\ error_count' = error_count + 1
                /\ last_fetch_error' = clock'
                /\ data_cache' = data_cache
                /\ last_update_time' = last_update_time
                /\ last_successful_fetch' = last_successful_fetch
                /\ published' = published]_vars

\* C26 witness: a snapshot was published, and the next request returned {}:
\* an error is counted, and the snapshot and its two times are those of the
\* first fetch.
C26_Witness ==
    /\ last_outcome.got = EmptyPayload
    /\ last_outcome.result = "False"
    /\ started = 2
    /\ error_count = 1
    /\ last_fetch_error = clock
    /\ Truthy(data_cache)
    /\ data_cache = published.data
    /\ last_update_time = published.at
    /\ last_successful_fetch = published.at
    /\ published.at < clock

====
